---- MODULE Spec2Model ----
(***************************************************************************)
(* Model of the echo mock-endpoint server: the SQLite-backed Store         *)
(* (src/store/store.go) and the HTTP handlers routed by http.ServeMux      *)
(* (src/server/server.go).                                                 *)
(*                                                                         *)
(* Text is modelled structurally:                                          *)
(*   - a path is a sequence of chunks, each chunk being "/" or a           *)
(*     slash-free piece of text ("." and ".." only as whole segments);     *)
(*   - a body is a sequence of characters;                                 *)
(*   - the headers column is the token sequence of the JSON text.          *)
(* Header names and values are valid UTF-8 atoms (what encoding/json's     *)
(* decoder hands to the handlers).                                         *)
(*                                                                         *)
(* Under Spec and SpecFault each step serves one request from start to end *)
(* (requests in sequence); under SpecConcurrent two connections are served *)
(* at the same time and the steps are the database calls of the handlers.  *)
(* The table starts as store.New leaves it; Store.Seed is not run.         *)
(***************************************************************************)
EXTENDS Integers, Sequences, FiniteSets, TLC

VARIABLES
    rows,    \* the endpoints table: a set of rows
    seq,     \* sqlite_sequence of the table (AUTOINCREMENT): largest rowid ever assigned
    req,     \* the request served last
    resp,    \* the response written for it
    store,   \* what the Store methods returned while serving it
    issued,  \* history: the ids returned by successful CreateEndpoint calls
    inflight \* the requests being served at the same time, one per connection

vars == <<rows, seq, req, resp, store, issued, inflight>>

\* ---------------------------------------------------------------- bounds
MaxCreates == 2

\* ---------------------------------------------------------------- text
Q == "\""
Slash == "/"
\* the backquote character (U+0060) of the error details
Tick == "U+0060"

\* ---------------------------------------------------------------- store.go: data
NilHeaders == [isNil |-> TRUE, kv |-> {}]
EmptyHeaders == [isNil |-> FALSE, kv |-> {}]
Hdr(kv) == [isNil |-> FALSE, kv |-> kv]

\* store.go:63-83 (Endpoint, Attributes, Response), flattened
Endpoint(type, id, verb, path, code, headers, body) ==
    [type |-> type, id |-> id, verb |-> verb, path |-> path,
     code |-> code, headers |-> headers, body |-> body]

ZeroEndpoint == Endpoint("", 0, "", <<>>, 0, NilHeaders, <<>>)

AllowedVerbs ==
    {"GET", "HEAD", "OPTIONS", "TRACE", "PUT", "DELETE", "POST", "PATCH", "CONNECT"}

Schemes == {"http:"}

\* validator tag uri: url.ParseRequestURI accepts a rooted path or an absolute URI
IsURI(path) ==
    /\ path # <<>>
    /\ \/ path[1] = Slash
       \/ path[1] \in Schemes /\ Len(path) > 1

\* mutant of Verify: the lte=599 tag of Code is missing
VerifyWithoutLte(e) ==
    (IF e.type = "" THEN <<"Type", "required">>
     ELSE IF e.type # "endpoints" THEN <<"Type", "oneof">> ELSE <<>>)
    \o (IF e.verb = "" THEN <<"Verb", "required">>
        ELSE IF e.verb \notin AllowedVerbs THEN <<"Verb", "oneof">> ELSE <<>>)
    \o (IF e.path = <<>> THEN <<"Path", "required">>
        ELSE IF ~IsURI(e.path) THEN <<"Path", "uri">> ELSE <<>>)
    \o (IF e.code = 0 THEN <<"Code", "required">>
        ELSE IF e.code < 100 THEN <<"Code", "gte">> ELSE <<>>)

\* store.go:69-83 Verify: the failed <<field, tag>> pairs in struct order
Verify(e) ==
    (IF e.type = "" THEN <<"Type", "required">>
     ELSE IF e.type # "endpoints" THEN <<"Type", "oneof">> ELSE <<>>)
    \o (IF e.verb = "" THEN <<"Verb", "required">>
        ELSE IF e.verb \notin AllowedVerbs THEN <<"Verb", "oneof">> ELSE <<>>)
    \o (IF e.path = <<>> THEN <<"Path", "required">>
        ELSE IF ~IsURI(e.path) THEN <<"Path", "uri">> ELSE <<>>)
    \o (IF e.code = 0 THEN <<"Code", "required">>
        ELSE IF e.code < 100 THEN <<"Code", "gte">>
        ELSE IF e.code > 599 THEN <<"Code", "lte">> ELSE <<>>)

\* ---------------------------------------------------------------- headers (de)serialization
\* encoding/json writes map keys in sorted (byte) order
KeyOrder == <<"Accept", "Content-Type", "content-type", "x-api-key">>

RECURSIVE MarshalPairs(_, _)
MarshalPairs(kv, i) ==
    IF i > Len(KeyOrder) THEN <<>>
    ELSE LET k == KeyOrder[i]
             rest == MarshalPairs(kv, i + 1)
             here == IF \E p \in kv : p[1] = k
                     THEN <<k, ":", (CHOOSE p \in kv : p[1] = k)[2]>>
                     ELSE <<>>
         IN  IF here = <<>> THEN rest
             ELSE IF rest = <<>> THEN here
             ELSE here \o <<",">> \o rest

\* json.Marshal(map[string]string): a nil map is the text null
Marshal(h) ==
    IF h.isNil THEN <<"null">> ELSE <<"{">> \o MarshalPairs(h.kv, 1) \o <<"}">>

RECURSIVE ParsePairs(_, _)
ParsePairs(text, i) ==
    IF text[i] = "}" THEN {}
    ELSE {<<text[i], text[i + 2]>>}
         \cup ParsePairs(text, IF text[i + 3] = "," THEN i + 4 ELSE i + 3)

\* json.Unmarshal(text, &headers) into the nil map of a fresh struct:
\* null leaves the map nil, an object allocates it
Unmarshal(text) ==
    IF text = <<"null">> THEN NilHeaders ELSE Hdr(ParsePairs(text, 2))

\* ---------------------------------------------------------------- store.go: the table
Row(id, e) ==
    [id |-> id, type |-> e.type, verb |-> e.verb, path |-> e.path,
     code |-> e.code, headers |-> Marshal(e.headers), body |-> e.body]

\* rows.Scan / row.Scan of a full row followed by json.Unmarshal of the headers
ScanEndpoint(r) ==
    Endpoint(r.type, r.id, r.verb, r.path, r.code, Unmarshal(r.headers), r.body)

\* row.Scan(&r.Code, &headers, &r.Body) followed by json.Unmarshal
ScanResponse(r) ==
    [code |-> r.code, headers |-> Unmarshal(r.headers), body |-> r.body]

NoResponse == [code |-> 0, headers |-> NilHeaders, body |-> <<>>]

ErrNil == "nil"
ErrNoRows == "sql: no rows in result set"

\* mutant of OrderById: ORDER BY id DESC
RECURSIVE OrderByIdDescending(_)
OrderByIdDescending(t) ==
    IF t = {} THEN <<>>
    ELSE LET first == CHOOSE r \in t : \A o \in t : r.id >= o.id
         IN  <<first>> \o OrderByIdDescending(t \ {first})

RECURSIVE OrderById(_)
OrderById(t) ==
    IF t = {} THEN <<>>
    ELSE LET first == CHOOSE r \in t : \A o \in t : r.id <= o.id
         IN  <<first>> \o OrderById(t \ {first})

RECURSIVE ScanAll(_)
ScanAll(s) == IF s = <<>> THEN <<>> ELSE <<ScanEndpoint(Head(s))>> \o ScanAll(Tail(s))

\* store.go:131-166: SELECT * FROM endpoints ORDER by id, into a non-nil slice
FetchEndpoints(t) ==
    [many |-> [isNil |-> FALSE, items |-> ScanAll(OrderById(t))], err |-> ErrNil]

\* mutant of CreateEndpoint: a plain INTEGER PRIMARY KEY (no AUTOINCREMENT) takes
\* one more than the largest rowid now in the table
CreateEndpointReusingIds(t, s, e) ==
    LET top == IF t = {} THEN 0 ELSE (CHOOSE r \in t : \A o \in t : r.id >= o.id).id
        new == Row(top + 1, e)
    IN  [rows |-> t \cup {new}, seq |-> s + 1,
         isNil |-> FALSE, one |-> ScanEndpoint(new), err |-> ErrNil]

\* store.go:168-198: INSERT ... RETURNING; id INTEGER PRIMARY KEY AUTOINCREMENT
\* takes one more than the largest rowid the table ever held
CreateEndpoint(t, s, e) ==
    LET new == Row(s + 1, e)
    IN  [rows |-> t \cup {new}, seq |-> s + 1,
         isNil |-> FALSE, one |-> ScanEndpoint(new), err |-> ErrNil]

\* ---------------------------------------------------------------- id text of a URL
Digits == <<"0", "1", "2", "3", "4", "5", "6", "7", "8", "9">>

DigitValue(c) == (CHOOSE i \in 1..10 : Digits[i] = c) - 1

IsDigit(c) == \E i \in 1..10 : Digits[i] = c

RECURSIVE DecimalValue(_)
DecimalValue(text) ==
    IF text = <<>> THEN 0
    ELSE DecimalValue(SubSeq(text, 1, Len(text) - 1)) * 10 + DigitValue(text[Len(text)])

\* WHERE id = ? with the id bound as TEXT: SQLite applies NUMERIC affinity to the
\* text before comparing it with the INTEGER column, so 02 is 2 and x matches nothing
IdMatches(rowId, text) ==
    /\ text # <<>>
    /\ \A i \in 1..Len(text) : IsDigit(text[i])
    /\ DecimalValue(text) = rowId

\* mutant of DeleteEndpoint: the statement only counts the rows (SELECT for DELETE)
DeleteEndpointKeepingRow(t, text) ==
    LET hit == {r \in t : IdMatches(r.id, text)}
    IN  [rows |-> t, ok |-> (Cardinality(hit) # 0), err |-> ErrNil]

\* mutant of DeleteEndpoint: the WHERE clause is missing
DeleteEndpointEveryRow(t, text) ==
    LET hit == {r \in t : IdMatches(r.id, text)}
    IN  [rows |-> IF hit = {} THEN t ELSE {}, ok |-> (Cardinality(hit) # 0), err |-> ErrNil]

\* mutant of DeleteEndpoint: RowsAffected is not looked at
DeleteEndpointAlwaysTrue(t, text) ==
    LET hit == {r \in t : IdMatches(r.id, text)}
    IN  [rows |-> t \ hit, ok |-> TRUE, err |-> ErrNil]

\* store.go:200-214: DELETE FROM endpoints WHERE id = ?
DeleteEndpoint(t, text) ==
    LET hit == {r \in t : IdMatches(r.id, text)}
    IN  [rows |-> t \ hit, ok |-> (Cardinality(hit) # 0), err |-> ErrNil]

\* mutant of FindEndpoint: the verb is not part of the WHERE clause
FindEndpointAnyVerb(t, verb, path) ==
    LET hit == {r \in t : r.path = path}
    IN  IF hit = {} THEN [isNil |-> TRUE, r |-> NoResponse, err |-> ErrNil]
        ELSE [isNil |-> FALSE,
              r |-> ScanResponse(CHOOSE r \in hit : \A o \in hit : r.id <= o.id),
              err |-> ErrNil]

\* store.go:216-229: SELECT code, headers, body ... WHERE verb = ? AND path = ?
\* QueryRow keeps the first row of the table scan (rowid order)
FindEndpoint(t, verb, path) ==
    LET hit == {r \in t : r.verb = verb /\ r.path = path}
    IN  IF hit = {} THEN [isNil |-> TRUE, r |-> NoResponse, err |-> ErrNil]
        ELSE [isNil |-> FALSE,
              r |-> ScanResponse(CHOOSE r \in hit : \A o \in hit : r.id <= o.id),
              err |-> ErrNil]

\* mutant of UpdateEndpoint: INSERT OR REPLACE with the id, which stores the record
\* also when no row has the id
UpdateEndpointUpserting(t, text, e) ==
    LET hit == {r \in t : IdMatches(r.id, text)}
        numeric == text # <<>> /\ \A i \in 1..Len(text) : IsDigit(text[i])
    IN  IF hit = {} /\ ~numeric
        THEN [rows |-> t, isNil |-> TRUE, one |-> ZeroEndpoint, err |-> ErrNoRows]
        ELSE LET new == Row(DecimalValue(text), e)
             IN  [rows |-> (t \ hit) \cup {new},
                  isNil |-> FALSE, one |-> ScanEndpoint(new), err |-> ErrNil]

\* mutant of UpdateEndpoint: verb and path are missing from the SET clause
UpdateEndpointKeepingPair(t, text, e) ==
    LET hit == {r \in t : IdMatches(r.id, text)}
    IN  IF hit = {}
        THEN [rows |-> t, isNil |-> TRUE, one |-> ZeroEndpoint, err |-> ErrNoRows]
        ELSE LET old == CHOOSE r \in hit : TRUE
                 new == Row(old.id, [e EXCEPT !.verb = old.verb, !.path = old.path])
             IN  [rows |-> (t \ {old}) \cup {new},
                  isNil |-> FALSE, one |-> ScanEndpoint(new), err |-> ErrNil]

\* mutant of UpdateEndpoint: id = ? is part of the SET clause, bound to endpoint.ID
UpdateEndpointSettingId(t, text, e) ==
    LET hit == {r \in t : IdMatches(r.id, text)}
    IN  IF hit = {}
        THEN [rows |-> t, isNil |-> TRUE, one |-> ZeroEndpoint, err |-> ErrNoRows]
        ELSE LET old == CHOOSE r \in hit : TRUE
                 new == Row(e.id, e)
             IN  [rows |-> (t \ {old}) \cup {new},
                  isNil |-> FALSE, one |-> ScanEndpoint(new), err |-> ErrNil]

\* mutant of UpdateEndpoint: the table has a UNIQUE (verb, path) constraint
UpdateEndpointUniquePair(t, text, e) ==
    LET hit == {r \in t : IdMatches(r.id, text)}
    IN  IF hit = {}
        THEN [rows |-> t, isNil |-> TRUE, one |-> ZeroEndpoint, err |-> ErrNoRows]
        ELSE LET old == CHOOSE r \in hit : TRUE
                 new == Row(old.id, e)
             IN  IF \E o \in t \ {old} : o.verb = e.verb /\ o.path = e.path
                 THEN [rows |-> t, isNil |-> TRUE, one |-> ZeroEndpoint,
                       err |-> "UNIQUE constraint failed"]
                 ELSE [rows |-> (t \ {old}) \cup {new},
                       isNil |-> FALSE, one |-> ScanEndpoint(new), err |-> ErrNil]

\* mutant of UpdateEndpoint: body is missing from the SET clause
UpdateEndpointKeepingBody(t, text, e) ==
    LET hit == {r \in t : IdMatches(r.id, text)}
    IN  IF hit = {}
        THEN [rows |-> t, isNil |-> TRUE, one |-> ZeroEndpoint, err |-> ErrNoRows]
        ELSE LET old == CHOOSE r \in hit : TRUE
                 new == Row(old.id, [e EXCEPT !.body = old.body])
             IN  [rows |-> (t \ {old}) \cup {new},
                  isNil |-> FALSE, one |-> ScanEndpoint(new), err |-> ErrNil]

\* store.go:231-262: UPDATE ... WHERE id = ? RETURNING ...; row.Scan of an empty
\* result is sql.ErrNoRows, which is returned as the error
UpdateEndpoint(t, text, e) ==
    LET hit == {r \in t : IdMatches(r.id, text)}
    IN  IF hit = {}
        THEN [rows |-> t, isNil |-> TRUE, one |-> ZeroEndpoint, err |-> ErrNoRows]
        ELSE LET old == CHOOSE r \in hit : TRUE
                 new == Row(old.id, e)
             IN  [rows |-> (t \ {old}) \cup {new},
                  isNil |-> FALSE, one |-> ScanEndpoint(new), err |-> ErrNil]

\* ---------------------------------------------------------------- server.go: routing
RECURSIVE Segments(_, _)
Segments(p, cur) ==
    IF p = <<>> THEN <<cur>>
    ELSE IF Head(p) = Slash THEN <<cur>> \o Segments(Tail(p), <<>>)
    ELSE Segments(Tail(p), Append(cur, Head(p)))

RECURSIVE Resolve(_, _)
Resolve(segs, stack) ==
    IF segs = <<>> THEN stack
    ELSE LET s == Head(segs)
         IN  IF s = <<>> \/ s = <<".">> THEN Resolve(Tail(segs), stack)
             ELSE IF s = <<"..">>
             THEN Resolve(Tail(segs),
                          IF stack = <<>> THEN stack
                          ELSE SubSeq(stack, 1, Len(stack) - 1))
             ELSE Resolve(Tail(segs), Append(stack, s))

RECURSIVE Join(_)
Join(stack) ==
    IF stack = <<>> THEN <<>> ELSE <<Slash>> \o Head(stack) \o Join(Tail(stack))

\* path.Clean of a rooted path
PathClean(p) ==
    LET j == Join(Resolve(Segments(p, <<>>), <<>>))
    IN  IF j = <<>> THEN <<Slash>> ELSE j

\* net/http cleanPath: the canonical form the ServeMux of New redirects to
CleanPath(p) ==
    IF p = <<>> THEN <<Slash>>
    ELSE LET q == IF p[1] # Slash THEN <<Slash>> \o p ELSE p
             np == PathClean(q)
         IN  IF q[Len(q)] = Slash /\ np # <<Slash>> THEN Append(np, Slash) ELSE np

EndpointsPath == <<Slash, "endpoints">>

\* the path matches /endpoints/{id}: one non-empty segment after /endpoints/
IsIdPath(p) ==
    /\ Len(p) > 3
    /\ SubSeq(p, 1, 3) = <<Slash, "endpoints", Slash>>
    /\ \A i \in 4..Len(p) : p[i] # Slash

\* r.PathValue("id")
PathValue(p) == SubSeq(p, 4, Len(p))

\* mutant of Route: the update pattern is registered as PUT /endpoints/{id}
RoutePutForPatch(method, path) ==
    IF method # "CONNECT" /\ CleanPath(path) # path THEN "redirect"
    ELSE IF method \in {"GET", "HEAD"} /\ path = EndpointsPath THEN "fetchEndpoints"
    ELSE IF method = "POST" /\ path = EndpointsPath THEN "createEndpoint"
    ELSE IF method = "PUT" /\ IsIdPath(path) THEN "updateEndpoint"
    ELSE IF method = "DELETE" /\ IsIdPath(path) THEN "deleteEndpoint"
    ELSE "all"

\* server.go:22-33: the handler the ServeMux of New picks for a request line.
\* A path that is not in canonical form is answered by the mux itself with a
\* redirect (CONNECT excepted); a GET pattern also matches HEAD; "/" matches the rest.
Route(method, path) ==
    IF method # "CONNECT" /\ CleanPath(path) # path THEN "redirect"
    ELSE IF method \in {"GET", "HEAD"} /\ path = EndpointsPath THEN "fetchEndpoints"
    ELSE IF method = "POST" /\ path = EndpointsPath THEN "createEndpoint"
    ELSE IF method = "PATCH" /\ IsIdPath(path) THEN "updateEndpoint"
    ELSE IF method = "DELETE" /\ IsIdPath(path) THEN "deleteEndpoint"
    ELSE "all"

\* ---------------------------------------------------------------- server.go: responses
StatusOK == 200
StatusCreated == 201
StatusNoContent == 204
StatusMovedPermanently == 301
StatusBadRequest == 400
StatusNotFound == 404
StatusInternalServerError == 500

\* http.StatusText
StatusText(code) ==
    CASE code = StatusBadRequest -> "Bad Request"
      [] code = StatusNotFound -> "Not Found"
      [] code = 409 -> "Conflict"
      [] code = StatusInternalServerError -> "Internal Server Error"
      [] OTHER -> ""

\* server.go:35-40 withVndHeaderMiddleware
VndHeader == {<<"Content-Type", "application/vnd.api+json">>}

NoMany == [isNil |-> TRUE, items |-> <<>>]

Response(status, headers, kind, one, many, code, detail, body) ==
    [status |-> status, headers |-> headers, kind |-> kind, one |-> one,
     many |-> many, code |-> code, detail |-> detail, body |-> body]

NoCall == [op |-> "none", isNil |-> TRUE, ok |-> FALSE, err |-> ErrNil,
           one |-> ZeroEndpoint, r |-> NoResponse]

Call(op, isNil, ok, err, one, r) ==
    [op |-> op, isNil |-> isNil, ok |-> ok, err |-> err, one |-> one, r |-> r]

\* the errors of a failing database/sql call, sql.ErrNoRows apart
Faults == {"sql: database is closed", "disk I/O error"}

\* a Store method that returns early with err (if err != nil { return nil, err }):
\* nothing is written and the results are the zero values
Failed(t, s, err) ==
    [rows |-> t, seq |-> s, isNil |-> TRUE, ok |-> FALSE, one |-> ZeroEndpoint,
     many |-> NoMany, r |-> NoResponse, err |-> err]

\* mutant of replyWithErr: the envelope code is always that of a 500
replyWithErrFixedCode(code, err) ==
    Response(code, VndHeader, "error", ZeroEndpoint, NoMany,
             StatusText(StatusInternalServerError),
             IF code = StatusInternalServerError
             THEN <<"Something went horribly wrong :(">> ELSE err,
             <<>>)

\* mutant of replyWithErr: the message of a 500 is not replaced
replyWithErrUnredacted(code, err) ==
    Response(code, VndHeader, "error", ZeroEndpoint, NoMany, StatusText(code), err, <<>>)

\* server.go:135-142
replyWithErr(code, err) ==
    Response(code, VndHeader, "error", ZeroEndpoint, NoMany, StatusText(code),
             IF code = StatusInternalServerError
             THEN <<"Something went horribly wrong :(">> ELSE err,
             <<>>)

\* a request body: undecodable, {} without data, or {"data": e}
Body(decoded, hasData, data) ==
    [decoded |-> decoded, hasData |-> hasData, data |-> data]

NoBody == Body(FALSE, FALSE, ZeroEndpoint)

\* mutant of unmarshalAndVerify: e.Data.Verify() is not called
unmarshalWithoutVerify(b) ==
    IF ~b.decoded
    THEN [e |-> ZeroEndpoint, err |-> <<"Unable to decode request body: ", "EOF">>]
    ELSE IF ~b.hasData
    THEN [e |-> ZeroEndpoint, err |-> <<"validator: (nil *store.Endpoint)">>]
    ELSE [e |-> b.data, err |-> <<>>]

\* server.go:144-156: the endpoint and the error text (<<>> for a nil error)
unmarshalAndVerify(b) ==
    IF ~b.decoded
    THEN [e |-> ZeroEndpoint, err |-> <<"Unable to decode request body: ", "EOF">>]
    ELSE IF ~b.hasData
    THEN [e |-> ZeroEndpoint, err |-> <<"validator: (nil *store.Endpoint)">>]
    ELSE IF Verify(b.data) # <<>>
    THEN [e |-> ZeroEndpoint, err |-> <<"Field validation failed">> \o Verify(b.data)]
    ELSE [e |-> b.data, err |-> <<>>]

Handled(t, s, r, c) == [rows |-> t, seq |-> s, resp |-> r, store |-> c]

\* server.go:46-59; the body of the answer to a HEAD request is not sent.
\* fault is the error the database call fails with, ErrNil when it does not fail
fetchEndpoints(t, s, method, fault) ==
    LET f == IF fault = ErrNil THEN FetchEndpoints(t) ELSE Failed(t, s, fault)
        c == Call("FetchEndpoints", f.many.isNil, FALSE, f.err, ZeroEndpoint, NoResponse)
    IN  IF f.err # ErrNil
        THEN Handled(t, s, replyWithErr(StatusInternalServerError, <<"unable to fetch endpoints: ", f.err>>), c)
        ELSE IF method = "HEAD"
        THEN Handled(t, s, Response(StatusOK, VndHeader, "empty", ZeroEndpoint, NoMany, "", <<>>, <<>>), c)
        ELSE Handled(t, s, Response(StatusOK, VndHeader, "many", ZeroEndpoint, f.many, "", <<>>, <<>>), c)

\* server.go:61-79
createEndpoint(t, s, b, fault) ==
    LET u == unmarshalAndVerify(b)
        created == IF fault = ErrNil THEN CreateEndpoint(t, s, u.e) ELSE Failed(t, s, fault)
        c == Call("CreateEndpoint", created.isNil, FALSE, created.err, created.one, NoResponse)
    IN  IF u.err # <<>>
        THEN Handled(t, s, replyWithErr(StatusBadRequest, u.err), NoCall)
        ELSE IF created.err # ErrNil
        THEN Handled(t, s, replyWithErr(StatusInternalServerError, <<"unable to create endpoint: ", created.err>>), c)
        ELSE Handled(created.rows, created.seq,
                     Response(StatusCreated, VndHeader, "one", created.one, NoMany, "", <<>>, <<>>), c)

\* mutant of updateEndpoint: the id is looked up before the body is verified
updateEndpointLookingUpFirst(t, s, id, b, fault) ==
    LET u == unmarshalAndVerify(b)
        updated == IF fault = ErrNil THEN UpdateEndpoint(t, id, u.e) ELSE Failed(t, s, fault)
        c == Call("UpdateEndpoint", updated.isNil, FALSE, updated.err, updated.one, NoResponse)
    IN  IF updated.err = ErrNoRows
        THEN Handled(updated.rows, s,
                     replyWithErr(StatusNotFound,
                         <<"Requested Endpoint with ID ">> \o id \o <<" does not exist">>), c)
        ELSE IF u.err # <<>>
        THEN Handled(t, s, replyWithErr(StatusBadRequest, u.err), NoCall)
        ELSE IF updated.err # ErrNil
        THEN Handled(updated.rows, s,
                     replyWithErr(StatusInternalServerError, <<"unable to update endpoint: ", updated.err>>), c)
        ELSE Handled(updated.rows, s,
                     Response(StatusCreated, VndHeader, "one", updated.one, NoMany, "", <<>>, <<>>), c)

\* server.go:81-103
updateEndpoint(t, s, id, b, fault) ==
    LET u == unmarshalAndVerify(b)
        updated == IF fault = ErrNil THEN UpdateEndpoint(t, id, u.e) ELSE Failed(t, s, fault)
        c == Call("UpdateEndpoint", updated.isNil, FALSE, updated.err, updated.one, NoResponse)
    IN  IF u.err # <<>>
        THEN Handled(t, s, replyWithErr(StatusBadRequest, u.err), NoCall)
        ELSE IF updated.err # ErrNil
        THEN IF updated.err = ErrNoRows
             THEN Handled(updated.rows, s,
                          replyWithErr(StatusNotFound,
                              <<"Requested Endpoint with ID ">> \o id \o <<" does not exist">>), c)
             ELSE Handled(updated.rows, s,
                          replyWithErr(StatusInternalServerError, <<"unable to update endpoint: ", updated.err>>), c)
        ELSE Handled(updated.rows, s,
                     Response(StatusCreated, VndHeader, "one", updated.one, NoMany, "", <<>>, <<>>), c)

\* mutant of deleteEndpoint: a delete that succeeded is answered 200
deleteEndpointAnswering200(t, s, id, fault) ==
    LET d == IF fault = ErrNil THEN DeleteEndpoint(t, id) ELSE Failed(t, s, fault)
        c == Call("DeleteEndpoint", FALSE, d.ok, d.err, ZeroEndpoint, NoResponse)
    IN  IF d.err # ErrNil
        THEN Handled(d.rows, s, replyWithErr(StatusInternalServerError, <<"unable to delete endpoint: ", d.err>>), c)
        ELSE IF d.ok
        THEN Handled(d.rows, s, Response(StatusOK, VndHeader, "empty", ZeroEndpoint, NoMany, "", <<>>, <<>>), c)
        ELSE Handled(d.rows, s,
                     replyWithErr(StatusNotFound,
                         <<"Requested Endpoint with ID ", Tick>> \o id \o <<Tick, " does not exist">>), c)

\* server.go:105-118
deleteEndpoint(t, s, id, fault) ==
    LET d == IF fault = ErrNil THEN DeleteEndpoint(t, id) ELSE Failed(t, s, fault)
        c == Call("DeleteEndpoint", FALSE, d.ok, d.err, ZeroEndpoint, NoResponse)
    IN  IF d.err # ErrNil
        THEN Handled(d.rows, s, replyWithErr(StatusInternalServerError, <<"unable to delete endpoint: ", d.err>>), c)
        ELSE IF d.ok
        THEN Handled(d.rows, s, Response(StatusNoContent, VndHeader, "empty", ZeroEndpoint, NoMany, "", <<>>, <<>>), c)
        ELSE Handled(d.rows, s,
                     replyWithErr(StatusNotFound,
                         <<"Requested Endpoint with ID ", Tick>> \o id \o <<Tick, " does not exist">>), c)

\* strings.TrimPrefix(s, "\"")
TrimPrefix(s) == IF s # <<>> /\ Head(s) = Q THEN Tail(s) ELSE s

\* strings.TrimSuffix(s, "\"")
TrimSuffix(s) == IF s # <<>> /\ s[Len(s)] = Q THEN SubSeq(s, 1, Len(s) - 1) ELSE s

\* textproto.CanonicalMIMEHeaderKey, as http.Header.Add applies it
CanonicalKey(k) ==
    CASE k = "content-type" -> "Content-Type"
      [] k = "x-api-key" -> "X-Api-Key"
      [] OTHER -> k

\* mutant of Serve: the Content-Type of the middleware is not deleted
ServeKeepingVnd(r) ==
    Response(r.code,
             VndHeader \cup {<<CanonicalKey(p[1]), p[2]>> : p \in r.headers.kv},
             "replay", ZeroEndpoint, NoMany, "", <<>>,
             TrimSuffix(TrimPrefix(r.body)))

\* mutant of Serve: the quotes are removed only as a pair
ServeStrippingPairs(r) ==
    Response(r.code,
             {<<CanonicalKey(p[1]), p[2]>> : p \in r.headers.kv},
             "replay", ZeroEndpoint, NoMany, "", <<>>,
             IF Len(r.body) >= 2 /\ Head(r.body) = Q /\ r.body[Len(r.body)] = Q
             THEN SubSeq(r.body, 2, Len(r.body) - 1) ELSE r.body)

\* store.go:85-97 Response.Serve
Serve(r) ==
    Response(r.code,
             {<<CanonicalKey(p[1]), p[2]>> : p \in r.headers.kv},
             "replay", ZeroEndpoint, NoMany, "", <<>>,
             TrimSuffix(TrimPrefix(r.body)))

\* mutant of all: Serve trims the body of the stored record, not of a copy
allTrimmingStoredBody(t, s, method, path, fault) ==
    LET f == IF fault = ErrNil THEN FindEndpoint(t, method, path) ELSE Failed(t, s, fault)
        c == Call("FindEndpoint", f.isNil, FALSE, f.err, ZeroEndpoint, f.r)
        hit == {r \in t : r.verb = method /\ r.path = path}
        first == CHOOSE r \in hit : \A o \in hit : r.id <= o.id
    IN  IF f.err # ErrNil
        THEN Handled(t, s, replyWithErr(StatusInternalServerError, <<"error finding endpoint: ", f.err>>), c)
        ELSE IF f.isNil
        THEN Handled(t, s,
                     replyWithErr(StatusNotFound,
                         <<"Requested page ", Tick>> \o path \o <<Tick, " does not exist">>), c)
        ELSE Handled((t \ {first}) \cup {[first EXCEPT !.body = TrimSuffix(TrimPrefix(first.body))]},
                     s, Serve(f.r), c)

\* server.go:120-133
all(t, s, method, path, fault) ==
    LET f == IF fault = ErrNil THEN FindEndpoint(t, method, path) ELSE Failed(t, s, fault)
        c == Call("FindEndpoint", f.isNil, FALSE, f.err, ZeroEndpoint, f.r)
    IN  IF f.err # ErrNil
        THEN Handled(t, s, replyWithErr(StatusInternalServerError, <<"error finding endpoint: ", f.err>>), c)
        ELSE IF f.isNil
        THEN Handled(t, s,
                     replyWithErr(StatusNotFound,
                         <<"Requested page ", Tick>> \o path \o <<Tick, " does not exist">>), c)
        ELSE Handled(t, s, Serve(f.r), c)

\* the ServeMux's own answer to a path that is not in canonical form
redirect(t, s, path) ==
    Handled(t, s,
            Response(StatusMovedPermanently,
                     VndHeader \cup {<<"Location", CleanPath(path)>>},
                     "redirect", ZeroEndpoint, NoMany, "", <<>>, <<>>),
            NoCall)

\* ---------------------------------------------------------------- requests
PathA == <<Slash, "a">>

V1 == Endpoint("endpoints", 0, "GET", PathA, 200,
               Hdr({<<"Content-Type", "application/json">>}), <<Q, "h", "i", Q>>)
V2 == Endpoint("endpoints", 9, "GET", PathA, 201, NilHeaders, <<"b", "y", "e">>)
V3 == Endpoint("endpoints", 0, "POST", PathA, 200, EmptyHeaders, <<Q, "x">>)
V4 == Endpoint("endpoints", 0, "GET", <<Slash, "A">>, 404,
               Hdr({<<"x-api-key", "s">>, <<"Accept", "t">>, <<"content-type", "text/plain">>}),
               <<"x", Q>>)
V5 == Endpoint("endpoints", 0, "GET", EndpointsPath, 200,
               Hdr({<<"content-type", "text/plain">>}), <<Q>>)

ValidInputs == {V1, V2, V3, V4, V5}

\* inputs that break one rule each, and the zero value that breaks them all
InvalidInputs ==
    {[V1 EXCEPT !.verb = "GETS"],
     [V3 EXCEPT !.code = 600],
     [V1 EXCEPT !.type = "test"],
     [V1 EXCEPT !.path = <<"@@">>],
     [V2 EXCEPT !.code = 99],
     ZeroEndpoint}

Bodies ==
    {Body(TRUE, TRUE, e) : e \in ValidInputs \cup InvalidInputs}
    \cup {Body(FALSE, FALSE, ZeroEndpoint),
          Body(TRUE, FALSE, ZeroEndpoint)}

\* the bodies sent with PATCH
PatchBodies ==
    {Body(TRUE, TRUE, e) : e \in {V1, V2, V3, V4}}
    \cup {Body(FALSE, FALSE, ZeroEndpoint),
          Body(TRUE, FALSE, ZeroEndpoint),
          Body(TRUE, TRUE, [V1 EXCEPT !.verb = "GETS"]),
          Body(TRUE, TRUE, [V2 EXCEPT !.code = 99])}

IdTexts == {<<"1">>, <<"2">>, <<"3">>, <<"0", "2">>, <<"x">>}

Methods == {"GET", "HEAD", "POST", "PUT", "PATCH", "DELETE", "get", "CONNECT"}

BasePaths ==
    {<<Slash>>, PathA, <<Slash, "A">>, <<Slash, "a", Slash>>, <<Slash, Slash, "a">>,
     EndpointsPath}

IdPaths == {<<Slash, "endpoints", Slash>> \o id : id \in IdTexts}

\* the request lines <<method, path>> clients send
RequestLines ==
    ({"GET"} \X BasePaths)
    \cup (Methods \X {PathA, EndpointsPath, <<Slash, Slash, "a">>})
    \cup ({"GET", "PATCH", "DELETE"} \X IdPaths)
    \cup ({"PUT", "HEAD"} \X {<<Slash, "endpoints", Slash, "1">>})

RoutedTo(handler) == {l \in RequestLines : Route(l[1], l[2]) = handler}

FetchLines == RoutedTo("fetchEndpoints")
CreateLines == RoutedTo("createEndpoint")
UpdateLines == RoutedTo("updateEndpoint")
DeleteLines == RoutedTo("deleteEndpoint")
AllLines == RoutedTo("all")
RedirectLines == RoutedTo("redirect")

Request(method, path, b) == [method |-> method, path |-> path, body |-> b]

NoRequest == Request("", <<>>, NoBody)

\* ---------------------------------------------------------------- connections
\* the connections served at the same time, each by its own goroutine
Procs == {1, 2}

NoResp == Response(0, {}, "none", ZeroEndpoint, NoMany, "", <<>>, <<>>)

\* a connection: where its goroutine is, the request it read, the Store calls made
\* for it and the answer of the handler
Conn(pc, r, calls, answer) == [pc |-> pc, req |-> r, calls |-> calls, resp |-> answer]

Idle == Conn("idle", NoRequest, <<>>, NoResp)

\* ---------------------------------------------------------------- the state machine
\* store.New (store.go:103-118): an empty table; no request served yet
Init ==
    /\ rows = {}
    /\ seq = 0
    /\ req = NoRequest
    /\ resp = NoResp
    /\ store = NoCall
    /\ issued = {}
    /\ inflight = [p \in Procs |-> Idle]

\* one request served from start to end: the handler's writes and its answer
Answer(r, handled) ==
    \E h \in {handled} :
        /\ h.seq <= MaxCreates
        /\ req' = r
        /\ rows' = h.rows
        /\ seq' = h.seq
        /\ resp' = h.resp
        /\ store' = h.store
        /\ issued' = IF h.store.op = "CreateEndpoint" /\ h.store.err = ErrNil
                     THEN issued \cup {h.store.one.id} ELSE issued
        /\ UNCHANGED inflight

FetchEndpointsReq ==
    \E l \in FetchLines :
        Answer(Request(l[1], l[2], NoBody), fetchEndpoints(rows, seq, l[1], ErrNil))

CreateEndpointReq ==
    \E l \in CreateLines, b \in Bodies :
        Answer(Request(l[1], l[2], b), createEndpoint(rows, seq, b, ErrNil))

UpdateEndpointReq ==
    \E l \in UpdateLines, b \in PatchBodies :
        Answer(Request(l[1], l[2], b), updateEndpoint(rows, seq, PathValue(l[2]), b, ErrNil))

DeleteEndpointReq ==
    \E l \in DeleteLines :
        Answer(Request(l[1], l[2], NoBody), deleteEndpoint(rows, seq, PathValue(l[2]), ErrNil))

AllReq ==
    \E l \in AllLines :
        Answer(Request(l[1], l[2], NoBody), all(rows, seq, l[1], l[2], ErrNil))

RedirectReq ==
    \E l \in RedirectLines :
        Answer(Request(l[1], l[2], NoBody), redirect(rows, seq, l[2]))

Next ==
    \/ FetchEndpointsReq
    \/ CreateEndpointReq
    \/ UpdateEndpointReq
    \/ DeleteEndpointReq
    \/ AllReq
    \/ RedirectReq

Spec == Init /\ [][Next]_vars

\* ---------------------------------------------------------------- clients that send no PATCH
NoPatchNext ==
    \/ FetchEndpointsReq
    \/ CreateEndpointReq
    \/ DeleteEndpointReq
    \/ AllReq
    \/ RedirectReq

\* the server when no client sends PATCH /endpoints/{id}
SpecNoPatch == Init /\ [][NoPatchNext]_vars

\* ---------------------------------------------------------------- failing storage
\* the request lines served while the database call of the handler fails
FaultLines ==
    {<<"GET", EndpointsPath>>, <<"POST", EndpointsPath>>,
     <<"PATCH", <<Slash, "endpoints", Slash, "1">>>>,
     <<"DELETE", <<Slash, "endpoints", Slash, "1">>>>,
     <<"GET", PathA>>, <<"POST", PathA>>}

FetchEndpointsFails ==
    \E l \in FaultLines \cap FetchLines, fault \in Faults :
        Answer(Request(l[1], l[2], NoBody), fetchEndpoints(rows, seq, l[1], fault))

CreateEndpointFails ==
    \E l \in FaultLines \cap CreateLines, fault \in Faults :
        Answer(Request(l[1], l[2], Body(TRUE, TRUE, V1)),
               createEndpoint(rows, seq, Body(TRUE, TRUE, V1), fault))

UpdateEndpointFails ==
    \E l \in FaultLines \cap UpdateLines, fault \in Faults :
        Answer(Request(l[1], l[2], Body(TRUE, TRUE, V1)),
               updateEndpoint(rows, seq, PathValue(l[2]), Body(TRUE, TRUE, V1), fault))

DeleteEndpointFails ==
    \E l \in FaultLines \cap DeleteLines, fault \in Faults :
        Answer(Request(l[1], l[2], NoBody), deleteEndpoint(rows, seq, PathValue(l[2]), fault))

AllFails ==
    \E l \in FaultLines \cap AllLines, fault \in Faults :
        Answer(Request(l[1], l[2], NoBody), all(rows, seq, l[1], l[2], fault))

FaultNext ==
    \/ Next
    \/ FetchEndpointsFails
    \/ CreateEndpointFails
    \/ UpdateEndpointFails
    \/ DeleteEndpointFails
    \/ AllFails

\* the server with a database whose calls may fail
SpecFault == Init /\ [][FaultNext]_vars

\* ---------------------------------------------------------------- requests at the same time
\* ServeMux.ServeHTTP: the handler of the request line run on table t
Handle(t, s, r, fault) ==
    LET h == Route(r.method, r.path)
    IN  CASE h = "fetchEndpoints" -> fetchEndpoints(t, s, r.method, fault)
          [] h = "createEndpoint" -> createEndpoint(t, s, r.body, fault)
          [] h = "updateEndpoint" -> updateEndpoint(t, s, PathValue(r.path), r.body, fault)
          [] h = "deleteEndpoint" -> deleteEndpoint(t, s, PathValue(r.path), fault)
          [] h = "all" -> all(t, s, r.method, r.path, fault)
          [] OTHER -> redirect(t, s, r.path)

\* the handler answers without a Store call: the router's redirect, or a POST or
\* PATCH whose body unmarshalAndVerify rejects
AnswersAtOnce(r) ==
    LET h == Route(r.method, r.path)
    IN  \/ h = "redirect"
        \/ h \in {"createEndpoint", "updateEndpoint"} /\ unmarshalAndVerify(r.body).err # <<>>

\* the requests sent on the two connections
ConcRequests ==
    {Request("POST", EndpointsPath, Body(TRUE, TRUE, V1)),
     Request("POST", EndpointsPath, Body(TRUE, TRUE, V2)),
     Request("POST", EndpointsPath, Body(TRUE, TRUE, [V2 EXCEPT !.code = 99])),
     Request("PATCH", <<Slash, "endpoints", Slash, "1">>, Body(TRUE, TRUE, V1)),
     Request("PATCH", <<Slash, "endpoints", Slash, "2">>, Body(FALSE, FALSE, ZeroEndpoint)),
     Request("DELETE", <<Slash, "endpoints", Slash, "1">>, NoBody),
     Request("GET", EndpointsPath, NoBody),
     Request("HEAD", EndpointsPath, NoBody),
     Request("GET", PathA, NoBody),
     Request("GET", <<Slash, Slash, "a">>, NoBody)}

\* the error of a database call that finds the table locked by the other connection
ConcFaults == {"database table is locked"}

\* requests arrive on a new store or on one that already served a POST of V4
ConcInit ==
    /\ \/ rows = {} /\ seq = 0 /\ issued = {}
       \/ rows = {Row(1, V4)} /\ seq = 1 /\ issued = {1}
    /\ req = NoRequest
    /\ resp = NoResp
    /\ store = NoCall
    /\ inflight = [p \in Procs |-> Idle]

\* the goroutine of connection p reads a request and runs the handler up to its
\* Store call
Receive(p) ==
    /\ inflight[p].pc = "idle"
    /\ \E r \in ConcRequests :
          inflight' = [inflight EXCEPT ![p] =
              IF AnswersAtOnce(r)
              THEN Conn("replying", r, <<>>, Handle(rows, seq, r, ErrNil).resp)
              ELSE Conn("calling", r, <<>>, NoResp)]
    /\ UNCHANGED <<rows, seq, req, resp, store, issued>>

\* the one Store call of the handler: one SQL statement, atomic in the database,
\* that may fail
StoreCall(p) ==
    /\ inflight[p].pc = "calling"
    /\ \E fault \in {ErrNil} \cup ConcFaults :
          \E h \in {Handle(rows, seq, inflight[p].req, fault)} :
              /\ rows' = h.rows
              /\ seq' = h.seq
              /\ issued' = IF h.store.op = "CreateEndpoint" /\ h.store.err = ErrNil
                           THEN issued \cup {h.store.one.id} ELSE issued
              /\ inflight' = [inflight EXCEPT ![p] =
                                  Conn("replying", inflight[p].req, <<h.store>>, h.resp)]
    /\ UNCHANGED <<req, resp, store>>

\* the handler writes its answer and returns
Reply(p) ==
    /\ inflight[p].pc = "replying"
    /\ inflight' = [inflight EXCEPT ![p].pc = "done"]
    /\ UNCHANGED <<rows, seq, req, resp, store, issued>>

ConcNext == \E p \in Procs : Receive(p) \/ StoreCall(p) \/ Reply(p)

\* a goroutine that can run does run: the Go scheduler starves none
ConcFairness == \A p \in Procs : WF_vars(StoreCall(p)) /\ WF_vars(Reply(p))

SpecConcurrent == ConcInit /\ [][ConcNext]_vars /\ ConcFairness

\* ---------------------------------------------------------------- connections kept alive
\* the goroutine of connection p, its answer written, waits for the next request
\* on the same connection
NextRequest(p) ==
    /\ inflight[p].pc = "done"
    /\ inflight' = [inflight EXCEPT ![p] = Idle]
    /\ UNCHANGED <<rows, seq, req, resp, store, issued>>

\* the Store call of connection p, in runs of at most MaxCreates inserts
StoreCallWithin(p) == StoreCall(p) /\ seq' <= MaxCreates

KeepAliveNext ==
    \E p \in Procs :
        \/ Receive(p)
        \/ StoreCallWithin(p)
        \/ Reply(p)
        \/ NextRequest(p)

\* two connections on a new store, each serving one request after the other
SpecKeepAlive == Init /\ [][KeepAliveNext]_vars

\* ---------------------------------------------------------------- properties
\* what a property says about the request a step serves: the handler it is routed to
IsCreate(r) == <<r.method, r.path>> \in CreateLines
IsUpdate(r) == <<r.method, r.path>> \in UpdateLines
IsDelete(r) == <<r.method, r.path>> \in DeleteLines
IsFetch(r) == <<r.method, r.path>> \in FetchLines
IsAll(r) == <<r.method, r.path>> \in AllLines

ValidBody(b) == b.decoded /\ b.hasData /\ Verify(b.data) = <<>>

Holds(t, verb, path) == \E r \in t : r.verb = verb /\ r.path = path

HasId(t, text) == \E r \in t : IdMatches(r.id, text)

ResponseOf(e) == [code |-> e.code, headers |-> e.headers, body |-> e.body]

PageDetail(path) == <<"Requested page ", Tick>> \o path \o <<Tick, " does not exist">>

EndpointDetail(id) ==
    <<"Requested Endpoint with ID ", Tick>> \o id \o <<Tick, " does not exist">>

\* C1: a POST /endpoints with a valid input whose (verb, path) is already held by a
\* stored endpoint is answered 409, and the table and the next id stay as they were.
C1_DuplicateCreateIsConflict ==
    [][(/\ IsCreate(req')
        /\ ValidBody(req'.body)
        /\ Holds(rows, req'.body.data.verb, req'.body.data.path))
       => (/\ resp'.status = 409
           /\ rows' = rows
           /\ seq' = seq)]_vars

\* C2 as claimed: every request that is not literally GET /endpoints, POST /endpoints,
\* PATCH /endpoints/{id} or DELETE /endpoints/{id} is answered with the replay of a
\* stored endpoint exactly when one has its verb and path, and with the
\* "Requested page" 404 otherwise.
IsManagementLine(r) ==
    \/ r.method = "GET" /\ r.path = EndpointsPath
    \/ r.method = "POST" /\ r.path = EndpointsPath
    \/ r.method = "PATCH" /\ IsIdPath(r.path)
    \/ r.method = "DELETE" /\ IsIdPath(r.path)

ExactMatchOutcome ==
    IF Holds(rows, req.method, req.path)
    THEN /\ resp.kind = "replay"
         /\ \E r \in rows :
               /\ r.verb = req.method /\ r.path = req.path
               /\ resp.status = r.code
               /\ store.r.body = r.body
               /\ Marshal(store.r.headers) = r.headers
    ELSE /\ resp.status = 404
         /\ resp.kind = "error"
         /\ resp.detail = PageDetail(req.path)

C2_EveryOtherRequestIsExactMatch ==
    (req # NoRequest /\ ~IsManagementLine(req)) => ExactMatchOutcome

\* C2 as amended: every request the router hands to the catch-all handler is
\* answered by exact match on verb and path: replay or the "Requested page" 404.
C2_CatchAllIsExactMatch ==
    (req # NoRequest /\ IsAll(req)) => ExactMatchOutcome

\* a registered path asked for with another verb: 404
C2_Witness ==
    /\ IsAll(req)
    /\ req.method = "POST"
    /\ Holds(rows, "GET", req.path)
    /\ ~Holds(rows, "POST", req.path)
    /\ resp.status = 404

\* C3: right after CreateEndpoint(e) has stored a valid e, FindEndpoint(e.verb, e.path)
\* returns the code, headers and body of e.
C3_CreateThenFind ==
    (IsCreate(req) /\ store.op = "CreateEndpoint" /\ store.err = ErrNil)
    => LET e == req.body.data
           f == FindEndpoint(rows, e.verb, e.path)
       IN  ~f.isNil /\ f.err = ErrNil /\ f.r = ResponseOf(e)

\* C4: UpdateEndpoint with an id no stored endpoint has returns a nil record with a
\* nil error, and changes no stored endpoint.
C4_UpdateUnknownIsNilNil ==
    [][(/\ IsUpdate(req')
        /\ ValidBody(req'.body)
        /\ ~HasId(rows, PathValue(req'.path)))
       => (/\ store'.op = "UpdateEndpoint"
           /\ store'.isNil
           /\ store'.err = ErrNil
           /\ rows' = rows)]_vars

\* C5: PATCH /endpoints/{id} with a valid body and an id no stored endpoint has is
\* answered 404 with the detail that names the id between backquotes, and the
\* table is unchanged.
C5_PatchUnknownIs404 ==
    [][(/\ IsUpdate(req')
        /\ ValidBody(req'.body)
        /\ ~HasId(rows, PathValue(req'.path)))
       => (/\ resp'.status = 404
           /\ resp'.detail = EndpointDetail(PathValue(req'.path))
           /\ rows' = rows
           /\ seq' = seq)]_vars

\* the stored row shows exactly the fields of input e under id i
RowShows(r, i, e) ==
    /\ r.id = i
    /\ r.type = e.type
    /\ r.verb = e.verb
    /\ r.path = e.path
    /\ r.code = e.code
    /\ Unmarshal(r.headers) = e.headers
    /\ r.body = e.body

\* C6: a successful update of id i with input e leaves, under id i, exactly the verb,
\* path, code, headers and body of e, returns that record with id i, keeps the
\* number of records, and leaves every other record as it was.
C6_UpdateReplacesWholeRecord ==
    [][(IsUpdate(req') /\ resp'.status = 201)
       => \E old \in rows :
             LET e == req'.body.data
             IN  /\ IdMatches(old.id, PathValue(req'.path))
                 /\ \E new \in rows' :
                       /\ RowShows(new, old.id, e)
                       /\ rows' \ {new} = rows \ {old}
                 /\ resp'.kind = "one"
                 /\ resp'.one = [e EXCEPT !.id = old.id]
                 /\ Cardinality(rows') = Cardinality(rows)]_vars

\* an update answered 201 that changed verb, code, headers and body of one record
\* while another record was stored
C6_Witness ==
    /\ IsUpdate(req)
    /\ resp.status = 201
    /\ Cardinality(rows) = 2
    /\ req.body.data = V3
    /\ \E r \in rows : RowShows(r, 1, V3)
    /\ \E r \in rows : RowShows(r, 2, V1)

RECURSIVE Without(_, _)
Without(s, i) ==
    IF s = <<>> THEN <<>>
    ELSE IF Head(s).id = i THEN Without(Tail(s), i)
    ELSE <<Head(s)>> \o Without(Tail(s), i)

\* C7: deleting an existing id i returns true; FetchEndpoints then lists the records
\* listed before except the one with id i; DELETE /endpoints/{i} is answered 204
\* with an empty body.
C7_DeleteExisting ==
    [][(IsDelete(req') /\ HasId(rows, PathValue(req'.path)))
       => \E gone \in rows :
             LET before == FetchEndpoints(rows).many.items
                 after == FetchEndpoints(rows').many.items
             IN  /\ IdMatches(gone.id, PathValue(req'.path))
                 /\ store'.ok /\ store'.err = ErrNil
                 /\ \A k \in 1..Len(after) : after[k].id # gone.id
                 /\ after = Without(before, gone.id)
                 /\ Len(after) = Len(before) - 1
                 /\ resp'.status = 204
                 /\ resp'.kind = "empty"
                 /\ resp'.body = <<>>]_vars

\* a delete answered 204 that left another record behind
C7_Witness ==
    /\ IsDelete(req)
    /\ resp.status = 204
    /\ store.ok
    /\ seq = 2
    /\ Cardinality(rows) = 1

\* C8: deleting an id that no stored endpoint has (never assigned, or deleted
\* already) returns false with no error, changes nothing and is answered 404; so
\* of two successive deletes of the same id the second never returns true.
C8_DeleteMissing ==
    [][/\ (IsDelete(req') /\ ~HasId(rows, PathValue(req'.path)))
          => (/\ store'.op = "DeleteEndpoint"
              /\ ~store'.ok
              /\ store'.err = ErrNil
              /\ rows' = rows
              /\ seq' = seq
              /\ resp'.status = 404
              /\ resp'.detail = EndpointDetail(PathValue(req'.path)))
       /\ (IsDelete(req) /\ store.ok /\ IsDelete(req') /\ req'.path = req.path)
          => ~store'.ok]_vars

\* the second of two successive deletes of the same, once existing, id: 404
C8_Witness ==
    /\ IsDelete(req)
    /\ req.path = <<Slash, "endpoints", Slash, "1">>
    /\ resp.status = 404
    /\ ~store.ok
    /\ seq >= 1
    /\ ~HasId(rows, <<"1">>)

\* C9: every successful create returns a positive id greater than every id a create
\* returned before (deleted ones included), 1 for the first create on a new
\* store, and no two stored records share an id.
C9_IdsNeverReused ==
    /\ [](\A r1, r2 \in rows : r1.id = r2.id => r1 = r2)
    /\ [][(IsCreate(req') /\ resp'.status = 201)
          => (/\ store'.op = "CreateEndpoint"
              /\ store'.one.id = resp'.one.id
              /\ resp'.one.id > 0
              /\ \A j \in issued : resp'.one.id > j
              /\ \A r \in rows : resp'.one.id > r.id
              /\ (issued = {} => resp'.one.id = 1)
              /\ \E r \in rows' : r.id = resp'.one.id)]_vars

\* a create after the record with the highest id was deleted: the id is not reused
C9_Witness ==
    /\ IsCreate(req)
    /\ resp.status = 201
    /\ resp.one.id = 2
    /\ issued = {1, 2}
    /\ {r.id : r \in rows} = {2}

\* C10: in every state FetchEndpoints returns the stored records, each once, in
\* strictly ascending id order, as a non-nil sequence and with no error; GET
\* /endpoints answers 200 with that sequence, the empty one for an empty table.
C10_FetchAllAscending ==
    /\ LET f == FetchEndpoints(rows)
           items == f.many.items
       IN  /\ f.err = ErrNil
           /\ ~f.many.isNil
           /\ Len(items) = Cardinality(rows)
           /\ {items[k] : k \in 1..Len(items)} = {ScanEndpoint(r) : r \in rows}
           /\ \A k \in 1..(Len(items) - 1) : items[k].id < items[k + 1].id
    /\ (IsFetch(req) /\ req.method = "GET")
       => (/\ resp.status = 200
           /\ resp.kind = "many"
           /\ ~resp.many.isNil
           /\ Len(resp.many.items) = Cardinality(rows)
           /\ \A k \in 1..Len(resp.many.items) :
                 /\ \E r \in rows : RowShows(r, resp.many.items[k].id, resp.many.items[k])
                 /\ k > 1 => resp.many.items[k - 1].id < resp.many.items[k].id)

\* GET /endpoints listing two records
C10_Witness ==
    /\ IsFetch(req)
    /\ req.method = "GET"
    /\ resp.status = 200
    /\ Len(resp.many.items) = 2
    /\ resp.many.items[1].id = 1
    /\ resp.many.items[2].id = 2

\* GET /endpoints on a table emptied by deletes: the empty, non-nil sequence
C10_WitnessEmpty ==
    /\ IsFetch(req)
    /\ req.method = "GET"
    /\ seq > 0
    /\ resp.many = [isNil |-> FALSE, items |-> <<>>]

\* the four rules on an input, as the claim lists them
NineVerbs == {"GET", "HEAD", "OPTIONS", "TRACE", "PUT", "DELETE", "POST", "PATCH", "CONNECT"}

PassesRules(e) ==
    /\ e.type = "endpoints"
    /\ e.verb \in NineVerbs
    /\ e.path # <<>> /\ IsURI(e.path)
    /\ e.code >= 100 /\ e.code <= 599

\* C11: an input passes validation exactly when its type is "endpoints", its verb is
\* one of the nine tokens, its path is a non-empty valid URI and its code is within
\* 100..599; a POST /endpoints or PATCH /endpoints/{id} whose body does not decode,
\* has no data or breaks a rule is answered 400 with the table unchanged (and a
\* body that passes is not answered 400).
C11_InvalidInputIs400 ==
    [][(IsCreate(req') \/ IsUpdate(req'))
       => LET b == req'.body
              passes == b.decoded /\ b.hasData /\ PassesRules(b.data)
          IN  /\ b.hasData => ((Verify(b.data) = <<>>) <=> PassesRules(b.data))
              /\ ~passes => (/\ resp'.status = 400
                             /\ resp'.kind = "error"
                             /\ rows' = rows
                             /\ seq' = seq)
              /\ passes => resp'.status # 400]_vars

\* a POST whose only fault is the path, answered 400 while a record is stored
C11_Witness ==
    /\ IsCreate(req)
    /\ req.body.data = [V1 EXCEPT !.path = <<"@@">>]
    /\ resp.status = 400
    /\ rows # {}

\* a Store method returned an error that is not the not-found of the domain
StorageFailed == store.err \notin {ErrNil, ErrNoRows}

GenericMessage == <<"Something went horribly wrong :(">>

\* C12: whenever the Store call of a request fails with an error other than
\* not-found, the answer is 500 with the envelope code "Internal Server Error" and
\* the one fixed detail, the same whatever the error; no text of the error is in
\* the answer; so the answer is never a 2xx, 404 or 409.
C12_StorageErrorIsGeneric500 ==
    StorageFailed
    => (/\ resp = Response(StatusInternalServerError, VndHeader, "error", ZeroEndpoint,
                           NoMany, "Internal Server Error", GenericMessage, <<>>)
        /\ \A i \in 1..Len(resp.detail) : resp.detail[i] # store.err
        /\ \A i \in 1..Len(resp.body) : resp.body[i] # store.err
        /\ ~(resp.status >= 200 /\ resp.status <= 299)
        /\ resp.status \notin {404, 409})

\* a PATCH of a stored id whose UPDATE failed with a disk error
C12_Witness ==
    /\ store.op = "UpdateEndpoint"
    /\ store.err = "disk I/O error"
    /\ HasId(rows, <<"1">>)
    /\ resp.status = 500
    /\ resp.detail = GenericMessage

\* the answer is the replay of the stored response that FindEndpoint returned
IsReplay == IsAll(req) /\ resp.kind = "replay"

BeginsWithQuote(b) == b # <<>> /\ b[1] = Q
EndsWithQuote(b) == b # <<>> /\ b[Len(b)] = Q

\* C13 as claimed: the replayed body is the stored body without its first and last
\* character exactly when the stored body begins and ends with a double quote, and
\* the stored body unchanged in every other case.
C13_QuotesStrippedOnlyAsPair ==
    IsReplay
    => LET b == store.r.body
       IN  resp.body = IF BeginsWithQuote(b) /\ EndsWithQuote(b) /\ Len(b) >= 2
                       THEN SubSeq(b, 2, Len(b) - 1) ELSE b

\* C13 as amended: the body Serve writes is the stored body without one leading
\* double quote if it begins with one, and without one trailing double quote if
\* what is left ends with one, each on its own: both go when both are there, a
\* lone leading or a lone trailing quote goes too, anything else stays.
C13_QuotesStrippedEachOnItsOwn ==
    IsReplay
    => LET b == store.r.body
           n == Len(b)
       IN  resp.body =
               CASE BeginsWithQuote(b) /\ n >= 2 /\ EndsWithQuote(b) -> SubSeq(b, 2, n - 1)
                 [] BeginsWithQuote(b) /\ (n = 1 \/ ~EndsWithQuote(b)) -> SubSeq(b, 2, n)
                 [] ~BeginsWithQuote(b) /\ EndsWithQuote(b) -> SubSeq(b, 1, n - 1)
                 [] OTHER -> b

\* the replay of a stored body that only begins with a double quote
C13_Witness ==
    /\ IsReplay
    /\ store.r.body = <<Q, "x">>
    /\ resp.body = <<"x">>

\* header names are compared without regard to case
FoldName(k) ==
    CASE k = "Content-Type" -> "content-type"
      [] k = "X-Api-Key" -> "x-api-key"
      [] k = "Accept" -> "accept"
      [] OTHER -> k

Folded(kv) == {<<FoldName(p[1]), p[2]>> : p \in kv}

\* C14: a replay carries the stored status code and exactly the stored headers; the
\* Content-Type of the middleware is gone: the Content-Type of the replay is the
\* stored one when the stored headers have one, and there is none (so not
\* application/vnd.api+json) when they have not.
C14_ReplayCarriesStoredCodeAndHeaders ==
    IsReplay
    => LET stored == store.r.headers.kv
       IN  /\ resp.status = store.r.code
           /\ Folded(resp.headers) = Folded(stored)
           /\ \A p \in stored :
                 FoldName(p[1]) = "content-type" => <<"Content-Type", p[2]>> \in resp.headers
           /\ \A h \in resp.headers :
                 h[1] = "Content-Type" => \E p \in stored : FoldName(p[1]) = "content-type" /\ p[2] = h[2]
           /\ (\A p \in stored : FoldName(p[1]) # "content-type")
                 => \A h \in resp.headers : FoldName(h[1]) # "content-type"

\* the replay of a stored 404 whose headers name content-type in lower case
C14_Witness ==
    /\ IsReplay
    /\ resp.status = 404
    /\ <<"content-type", "text/plain">> \in store.r.headers.kv
    /\ resp.headers = {<<"X-Api-Key", "s">>, <<"Accept", "t">>, <<"Content-Type", "text/plain">>}

\* the replay of a stored response without headers: no Content-Type at all
C14_WitnessNoType ==
    /\ IsReplay
    /\ store.r.headers = NilHeaders
    /\ resp.headers = {}
    /\ resp.status = 201

IsManagement(r) == IsFetch(r) \/ IsCreate(r) \/ IsUpdate(r) \/ IsDelete(r)

Is2xx(status) == status >= 200 /\ status <= 299

\* C15: every answer of a management route, and every error answer of the catch-all
\* (404 or 500), has Content-Type application/vnd.api+json and no other
\* Content-Type; every non-2xx one of them is the error envelope whose code is the
\* HTTP status text of the status of the answer.
C15_VndTypeAndEnvelope ==
    (IsManagement(req) \/ (IsAll(req) /\ resp.kind # "replay"))
    => (/\ <<"Content-Type", "application/vnd.api+json">> \in resp.headers
        /\ \A h \in resp.headers : h[1] = "Content-Type" => h[2] = "application/vnd.api+json"
        /\ ~Is2xx(resp.status)
              => (/\ resp.kind = "error"
                  /\ resp.status \in {400, 404, 500}
                  /\ resp.code = StatusText(resp.status)
                  /\ resp.code # "")
        /\ Is2xx(resp.status) => resp.kind \in {"one", "many", "empty"})

\* a DELETE whose database call failed: 500 in the envelope with the vnd type
C15_Witness ==
    /\ IsDelete(req)
    /\ store.err \in Faults
    /\ resp.status = 500
    /\ resp.kind = "error"
    /\ resp.code = "Internal Server Error"
    /\ resp.headers = VndHeader

\* what a property says about the request of connection p
Answered(p) == inflight[p].pc = "done"
PostOf(p) == IsCreate(inflight[p].req) /\ ValidBody(inflight[p].req.body)
Created(p) == Answered(p) /\ PostOf(p) /\ inflight[p].resp.status = 201
CallFailed(p) == \E i \in 1..Len(inflight[p].calls) : inflight[p].calls[i].err \in ConcFaults

\* two POSTs of valid inputs with the same verb and path, one on each connection
SamePairPosts(p, q) ==
    /\ p # q
    /\ PostOf(p) /\ PostOf(q)
    /\ inflight[p].req.body.data.verb = inflight[q].req.body.data.verb
    /\ inflight[p].req.body.data.path = inflight[q].req.body.data.path

\* C16: of two POSTs with the same (verb, path), sent at the same time to a registry
\* that holds no endpoint with that pair, each makes the conflict check
\* (FindEndpoint) and then, as a second registry call, the insert (CreateEndpoint);
\* once both are answered and no call failed at least one is answered 201; every
\* 201 has exactly one stored record, under an id of its own. (That both may be
\* answered 201 is the state C16_BothCreated.)
C16_CheckThenInsert ==
    \A p, q \in Procs :
        SamePairPosts(p, q)
        => /\ inflight[p].calls # <<>> => inflight[p].calls[1].op = "FindEndpoint"
           /\ inflight[p].resp.status = 201
                 => (/\ Len(inflight[p].calls) = 2
                     /\ inflight[p].calls[2].op = "CreateEndpoint")
           /\ (Answered(p) /\ Answered(q) /\ ~CallFailed(p) /\ ~CallFailed(q))
                 => (Created(p) \/ Created(q))
           /\ Created(p)
                 => (/\ Cardinality({r \in rows : r.id = inflight[p].resp.one.id}) = 1
                     /\ Created(q) => inflight[q].resp.one.id # inflight[p].resp.one.id)

\* both POSTs of the same pair answered 201, both records stored under ids 2 and 3
\* beside the record the registry held
C16_BothCreated ==
    /\ SamePairPosts(1, 2)
    /\ Created(1) /\ Created(2)
    /\ {inflight[1].resp.one.id, inflight[2].resp.one.id} = {2, 3}
    /\ Cardinality(rows) = 3
    /\ Cardinality({r \in rows : r.verb = "GET" /\ r.path = PathA}) = 2

\* the answer was made by one of the four management operations: a Store method
\* of theirs ran, or the body was rejected
HandledByManagement ==
    \/ store.op \in {"FetchEndpoints", "CreateEndpoint", "UpdateEndpoint", "DeleteEndpoint"}
    \/ resp.status = 400

\* C17 as claimed: a request is handled by a management operation exactly when it
\* is GET /endpoints, POST /endpoints, PATCH /endpoints/{id} or DELETE
\* /endpoints/{id}; a stored mock with such a verb and path is never replayed;
\* every other request (HEAD or PUT on /endpoints and /endpoints/{id} too) is
\* answered by exact match, with the replay or the "Requested page" 404; never 405.
C17_OnlyTheFourRoutesManage ==
    req # NoRequest
    => (/\ HandledByManagement <=> IsManagementLine(req)
        /\ IsManagementLine(req) => resp.kind # "replay"
        /\ ~IsManagementLine(req) => ExactMatchOutcome
        /\ resp.status # 405)

IsManagementLineOrHead(r) ==
    IsManagementLine(r) \/ (r.method = "HEAD" /\ r.path = EndpointsPath)

IsCanonical(r) == r.method = "CONNECT" \/ CleanPath(r.path) = r.path

\* C17 as amended: a request is handled by a management operation exactly when its
\* path is in canonical form and it is GET or HEAD /endpoints, POST /endpoints,
\* PATCH /endpoints/{id} or DELETE /endpoints/{id}; a stored mock with such a verb
\* and path is never replayed; a request whose path is not in canonical form
\* (CONNECT apart) is answered 301 by the router without a Store call; every other
\* request (PUT on /endpoints, HEAD or PUT on /endpoints/{id} too) is answered by
\* exact match, with the replay or the "Requested page" 404; never 405.
C17_RoutesOfTheMux ==
    req # NoRequest
    => LET managed == IsCanonical(req) /\ IsManagementLineOrHead(req)
       IN  /\ HandledByManagement <=> managed
           /\ managed => resp.kind # "replay"
           /\ ~IsCanonical(req)
                 => (/\ resp.status = StatusMovedPermanently
                     /\ <<"Location", CleanPath(req.path)>> \in resp.headers
                     /\ store = NoCall)
           /\ (IsCanonical(req) /\ ~managed) => ExactMatchOutcome
           /\ resp.status # 405

\* GET /endpoints while a mock for GET /endpoints is stored: the list, not the mock
C17_Witness ==
    /\ req.method = "GET"
    /\ req.path = EndpointsPath
    /\ Holds(rows, "GET", EndpointsPath)
    /\ resp.kind = "many"
    /\ resp.many.items # <<>>

\* PUT on /endpoints/{id}: exact match, here the 404
C17_WitnessPut ==
    /\ req.method = "PUT"
    /\ IsIdPath(req.path)
    /\ resp.status = 404
    /\ resp.detail = PageDetail(req.path)

\* the handler of connection p has made its answer
HasAnswer(p) == inflight[p].pc \in {"replying", "done"}

\* the stored code of the mock the lookup of connection p found, if it found one
MockCodes(p) ==
    {inflight[p].calls[i].r.code :
        i \in {j \in 1..Len(inflight[p].calls) :
                  inflight[p].calls[j].op = "FindEndpoint" /\ ~inflight[p].calls[j].isNil}}

\* the statuses the claim allows for the request line r of connection p
ClaimedStatuses(p, r) ==
    IF r.method = "GET" /\ r.path = EndpointsPath THEN {200, 500}
    ELSE IF r.method = "POST" /\ r.path = EndpointsPath THEN {201, 400, 409, 500}
    ELSE IF r.method = "PATCH" /\ IsIdPath(r.path) THEN {201, 400, 404, 500}
    ELSE IF r.method = "DELETE" /\ IsIdPath(r.path) THEN {204, 404, 500}
    ELSE IF MockCodes(p) # {} THEN MockCodes(p) \cup {500}
    ELSE {404, 500}

\* C18 as claimed, for the requests answered: the status of the answer is in the set
\* of its route: GET /endpoints {200, 500}, POST /endpoints {201, 400, 409, 500},
\* PATCH /endpoints/{id} {201, 400, 404, 500}, DELETE /endpoints/{id}
\* {204, 404, 500}, any other request the code of the matched mock, 404 or 500.
C18_StatusInClaimedSet ==
    \A p \in Procs :
        HasAnswer(p) => inflight[p].resp.status \in ClaimedStatuses(p, inflight[p].req)

\* the statuses of the routes of the router
RouteStatuses(p, r) ==
    IF ~IsCanonical(r) THEN {301}
    ELSE IF r.method = "HEAD" /\ r.path = EndpointsPath THEN {200, 500}
    ELSE ClaimedStatuses(p, r)

\* connection p can take its next step whatever the other connection does
CanStep(p) == ENABLED (StoreCall(p) \/ Reply(p))

\* C18 as amended: every request read is answered after finitely many steps, with
\* one status that never changes afterwards and that is in the set of its route:
\* GET or HEAD /endpoints {200, 500}, POST /endpoints {201, 400, 409, 500}, PATCH
\* /endpoints/{id} {201, 400, 404, 500}, DELETE /endpoints/{id} {204, 404, 500},
\* a path that is not in canonical form {301}, any other request the code of the
\* matched mock, 404 or 500. No handler waits on another request: between reading
\* its request and returning, a handler can always take its next step.
C18_AnsweredWithinRouteSet ==
    /\ [](\A p \in Procs :
             HasAnswer(p) => inflight[p].resp.status \in RouteStatuses(p, inflight[p].req))
    /\ [](\A p \in Procs : inflight[p].pc \in {"calling", "replying"} => CanStep(p))
    /\ [][\A p \in Procs : HasAnswer(p) => inflight'[p].resp = inflight[p].resp]_vars
    /\ \A p \in Procs : (inflight[p].pc # "idle") ~> Answered(p)

\* both connections answered: a POST with 201 and a GET of the path it registered
\* with the code of the mock
C18_Witness ==
    /\ Answered(1) /\ Answered(2)
    /\ IsCreate(inflight[1].req)
    /\ inflight[1].resp.status = 201
    /\ inflight[2].req.method = "GET" /\ inflight[2].req.path = PathA
    /\ inflight[2].resp.kind = "replay"
    /\ inflight[2].resp.status = 201

\* the body decodes to an input that breaks a rule
BreaksRule(b) == b.decoded /\ b.hasData /\ Verify(b.data) # <<>>

\* C19: validation comes first: a POST /endpoints whose input breaks a rule is
\* answered 400 also when a stored endpoint has its verb and path (never 409), and
\* a PATCH /endpoints/{id} whose body is not valid is answered 400 also when no
\* stored endpoint has the id (never 404); no Store method is called for either,
\* the detail is the validation message and the table is unchanged.
C19_ValidationComesFirst ==
    [][(\/ (/\ IsCreate(req')
             /\ BreaksRule(req'.body)
             /\ Holds(rows, req'.body.data.verb, req'.body.data.path))
        \/ (/\ IsUpdate(req')
             /\ ~ValidBody(req'.body)
             /\ ~HasId(rows, PathValue(req'.path))))
       => (/\ resp'.status = 400
           /\ resp'.status \notin {404, 409}
           /\ resp'.detail = unmarshalAndVerify(req'.body).err
           /\ store' = NoCall
           /\ rows' = rows
           /\ seq' = seq)]_vars

\* a PATCH of an id that is not stored, with an input whose code is out of range:
\* 400 with the message of the code rule
C19_Witness ==
    /\ IsUpdate(req)
    /\ ~HasId(rows, PathValue(req.path))
    /\ rows # {}
    /\ BreaksRule(req.body)
    /\ resp.status = 400
    /\ resp.detail = <<"Field validation failed", "Code", "gte">>
    /\ store = NoCall

\* a POST with a wrong type whose verb and path are those of a stored endpoint: 400
C19_WitnessPost ==
    /\ IsCreate(req)
    /\ req.body.data = [V1 EXCEPT !.type = "test"]
    /\ Holds(rows, "GET", PathA)
    /\ resp.status = 400

\* C20: a PATCH of a stored endpoint with a valid input whose verb and path are
\* those of another stored endpoint is answered 201 (not 409) and leaves two
\* stored endpoints with that verb and path, the patched one and the other.
C20_PatchMakesDuplicates ==
    [][(/\ IsUpdate(req')
        /\ ValidBody(req'.body)
        /\ \E a, b \in rows :
              /\ a.id # b.id
              /\ IdMatches(a.id, PathValue(req'.path))
              /\ b.verb = req'.body.data.verb
              /\ b.path = req'.body.data.path)
       => (/\ resp'.status = 201
           /\ resp'.status # 409
           /\ \E a, b \in rows' :
                 /\ a.id # b.id
                 /\ IdMatches(a.id, PathValue(req'.path))
                 /\ a.verb = req'.body.data.verb /\ a.path = req'.body.data.path
                 /\ b.verb = a.verb /\ b.path = a.path
                 /\ b \in rows)]_vars

\* after a PATCH of id 2 to POST /a, which id 1 holds too: two records with the
\* same verb and path and different responses
C20_Witness ==
    /\ IsUpdate(req)
    /\ PathValue(req.path) = <<"2">>
    /\ req.body.data = V3
    /\ resp.status = 201
    /\ resp.one.id = 2
    /\ \E a, b \in rows :
          /\ a.id = 1 /\ b.id = 2
          /\ a.verb = "POST" /\ b.verb = "POST"
          /\ a.path = PathA /\ b.path = PathA

\* C21: from an empty registry, after any sequence of GET, POST and DELETE
\* management requests and dispatch requests served one after the other (no
\* PATCH), no two stored endpoints have the same verb and path.
C21_PairsUniqueWithoutPatch ==
    \A r1, r2 \in rows : (r1.verb = r2.verb /\ r1.path = r2.path) => r1 = r2

\* two POSTs of the same input, both answered 201: ids 1 and 2 hold GET /a
C21_TwoRecordsOnePair ==
    /\ IsCreate(req)
    /\ resp.status = 201
    /\ resp.one.id = 2
    /\ \E a, b \in rows :
          /\ a.id = 1 /\ b.id = 2
          /\ a.verb = "GET" /\ b.verb = "GET"
          /\ a.path = PathA /\ b.path = PathA

Ids(t) == {r.id : r \in t}

\* the ids a client may write into data.id: none, a stored one, one never assigned
ClientIds == {0, 1, 9}

WithId(b, i) == [b EXCEPT !.data.id = i]

\* C22: the id in the request body is ignored. A create stores and returns the id
\* the registry assigns (one more than the largest id ever assigned) whatever
\* data.id says; an update changes the record of the URL id and returns that id
\* whatever data.id says; no step changes the id of a stored record: the ids stored
\* after a step are those stored before, plus the new one of a create, minus the
\* one of a delete.
C22_BodyIdIsIgnored ==
    [][/\ (resp'.status = 201 /\ IsCreate(req'))
          => (/\ resp'.one.id = seq + 1
              /\ Ids(rows') = Ids(rows) \cup {seq + 1}
              /\ rows \subseteq rows'
              /\ \A i \in ClientIds :
                    \E h \in {createEndpoint(rows, seq, WithId(req'.body, i), ErrNil)} :
                        h.resp = resp' /\ h.rows = rows')
       /\ (resp'.status = 201 /\ IsUpdate(req'))
          => (/\ IdMatches(resp'.one.id, PathValue(req'.path))
              /\ Ids(rows') = Ids(rows)
              /\ \A r \in rows \ rows' : IdMatches(r.id, PathValue(req'.path))
              /\ \A r \in rows' \ rows : IdMatches(r.id, PathValue(req'.path))
              /\ \A i \in ClientIds :
                    \E h \in {updateEndpoint(rows, seq, PathValue(req'.path),
                                              WithId(req'.body, i), ErrNil)} :
                        h.resp = resp' /\ h.rows = rows')
       /\ rows' # rows
          => (\/ resp'.status = 201 /\ (IsCreate(req') \/ IsUpdate(req'))
              \/ /\ IsDelete(req')
                 /\ rows' \subseteq rows)]_vars

\* a PATCH of /endpoints/1 whose body says id 9, while id 2 is stored too: the
\* record changed and returned is 1
C22_Witness ==
    /\ IsUpdate(req)
    /\ req.body.data.id = 9
    /\ PathValue(req.path) = <<"1">>
    /\ resp.status = 201
    /\ resp.one.id = 1
    /\ Ids(rows) = {1, 2}

\* a POST whose body says id 9: stored and returned under the id of the registry
C22_WitnessCreate ==
    /\ IsCreate(req)
    /\ req.body.data.id = 9
    /\ resp.status = 201
    /\ resp.one.id = 2
    /\ Ids(rows) = {1, 2}

\* C23: in every state reached from an empty registry by management and other
\* requests, served one after the other or at the same time, every stored endpoint
\* satisfies the validation rules: type "endpoints", verb one of the nine tokens,
\* path non-empty, code within 100..599.
C23_StoredEndpointsAreValid ==
    \A r \in rows :
        /\ r.type = "endpoints"
        /\ r.verb \in NineVerbs
        /\ r.path # <<>>
        /\ r.code >= 100 /\ r.code <= 599

\* a POST and a PATCH of valid inputs served at the same time as a POST of an
\* invalid one was rejected: two records stored, the patched one among them
C23_Witness ==
    /\ Cardinality(rows) = 2
    /\ \E r \in rows : RowShows(r, 1, V1)
    /\ \E p, q \in Procs :
          /\ p # q
          /\ IsUpdate(inflight[p].req) /\ inflight[p].resp.status = 201
          /\ IsCreate(inflight[q].req) /\ inflight[q].resp.status = 400
          /\ BreaksRule(inflight[q].req.body)

\* C24: requests that only read leave the registry as it was: GET /endpoints, a
\* lookup of the catch-all (matched or not) and every request answered 400, 404 or
\* 409 change no stored record and take no id. The quotes are stripped from a copy:
\* the GET /endpoints that follows a replay lists the body as stored, and the same
\* request served again on the unchanged table gets the same status, headers and body.
C24_ReadsChangeNothing ==
    [][/\ (\/ resp'.status \in {400, 404, 409}
           \/ resp'.kind = "replay"
           \/ IsFetch(req'))
          => (rows' = rows /\ seq' = seq /\ issued' = issued)
       /\ resp'.kind = "replay"
          => (/\ \E r \in rows' :
                    /\ r.verb = req'.method /\ r.path = req'.path
                    /\ r.body = store'.r.body
                    /\ resp'.body = TrimSuffix(TrimPrefix(r.body))
              /\ resp' = all(rows', seq', req'.method, req'.path, ErrNil).resp)
       /\ (resp.kind = "replay" /\ resp'.kind = "many")
          => \E k \in 1..Len(resp'.many.items) :
                LET e == resp'.many.items[k]
                IN  /\ e.verb = req.method /\ e.path = req.path
                    /\ e.body = store.r.body
                    /\ e.code = store.r.code
                    /\ e.headers = store.r.headers
       /\ (resp.kind = "replay" /\ req' = req) => resp' = resp]_vars

\* the same GET /a replayed twice in a row with the quotes stripped, the stored
\* body still with its quotes
C24_Witness ==
    /\ resp.kind = "replay"
    /\ req.method = "GET" /\ req.path = PathA
    /\ store.r.body = <<Q, "h", "i", Q>>
    /\ resp.body = <<"h", "i">>
    /\ \E r \in rows : r.verb = "GET" /\ r.path = PathA /\ r.body = <<Q, "h", "i", Q>>
    /\ ENABLED (AllReq /\ req' = req /\ resp' = resp /\ rows' = rows)

\* a PATCH of an id that is not stored, answered 404 while a record is stored
C24_WitnessNotFound ==
    /\ IsUpdate(req)
    /\ resp.status = 404
    /\ rows # {}
    /\ seq = 1

\* the answer to a request without body for verb and path on table t
AnswerTo(t, s, verb, path) == Handle(t, s, Request(verb, path, NoBody), ErrNil).resp

\* the PATCH of this step moved record old to the pair of e, and no other record
\* holds the old or the new pair
MovedAlone(old, e, t) ==
    /\ old.verb # e.verb \/ old.path # e.path
    /\ ~Holds(t \ {old}, old.verb, old.path)
    /\ ~Holds(t \ {old}, e.verb, e.path)

\* after the move: the old pair is answered the "Requested page" 404, the new pair
\* the replay of the response of the PATCH body, and the old record is gone
ServedAfterMove(old, e, t, s) ==
    /\ AnswerTo(t, s, old.verb, old.path) = replyWithErr(StatusNotFound, PageDetail(old.path))
    /\ AnswerTo(t, s, e.verb, e.path) = Serve(ResponseOf(e))
    /\ old \notin t
    /\ ~Holds(t, old.verb, old.path)

\* C25 as claimed: after a PATCH answered 201 that moves endpoint i from (verb1, path1)
\* to a different (verb2, path2), no other stored endpoint holding either pair, a
\* request (verb1, path1) is answered the "Requested page" 404 and a request
\* (verb2, path2) replays the response of the PATCH body; the old response is not
\* served any more.
C25_MovedEndpointIsServedAtNewPair ==
    [][(resp'.status = 201 /\ IsUpdate(req'))
       => \A old \in rows \ rows' :
             MovedAlone(old, req'.body.data, rows)
             => ServedAfterMove(old, req'.body.data, rows', seq')]_vars

\* C25 as amended: the same, for pairs (verb1, path1) and (verb2, path2) that the
\* router hands to the catch-all handler (not a management route, path in
\* canonical form).
C25_MovedDispatchPair ==
    [][(resp'.status = 201 /\ IsUpdate(req'))
       => \A old \in rows \ rows' :
             (/\ MovedAlone(old, req'.body.data, rows)
              /\ Route(old.verb, old.path) = "all"
              /\ Route(req'.body.data.verb, req'.body.data.path) = "all")
             => ServedAfterMove(old, req'.body.data, rows', seq')]_vars

\* record 1 holds GET /a with code 200 beside record 2 (GET /A), and the PATCH that
\* moves it to POST /a is answered 201: GET /a is then the 404, POST /a the replay
C25_Witness ==
    /\ \E r \in rows : RowShows(r, 1, V1)
    /\ \E r \in rows : r.id = 2 /\ r.path # PathA
    /\ ENABLED (/\ UpdateEndpointReq
                /\ PathValue(req'.path) = <<"1">>
                /\ req'.body.data = V3
                /\ resp'.status = 201
                /\ AnswerTo(rows', seq', "GET", PathA).status = 404
                /\ AnswerTo(rows', seq', "POST", PathA).kind = "replay"
                /\ AnswerTo(rows', seq', "POST", PathA).body = <<"x">>)

\* the inputs a client may POST for the pair of record r
InputsFor(r) == {e \in ValidInputs : e.verb = r.verb /\ e.path = r.path}

\* after the delete of record gone: its pair is answered the "Requested page" 404; a
\* POST of any valid input with that pair is then answered 201 with an id greater
\* than that of gone, and the pair is then answered the replay of that input
ServedAfterDelete(gone, t, s) ==
    /\ gone \notin t
    /\ AnswerTo(t, s, gone.verb, gone.path) = replyWithErr(StatusNotFound, PageDetail(gone.path))
    /\ \A e \in InputsFor(gone) :
          \E c \in {createEndpoint(t, s, Body(TRUE, TRUE, e), ErrNil)} :
              /\ c.resp.status = 201
              /\ c.resp.status # 409
              /\ c.resp.kind = "one"
              /\ c.resp.one.id > gone.id
              /\ AnswerTo(c.rows, c.seq, e.verb, e.path) = Serve(ResponseOf(e))

\* the record a DELETE of this id text removes from table t, when it is the only
\* one with its pair
OnlyHolders(t, text) ==
    {r \in t : IdMatches(r.id, text) /\ ~Holds(t \ {r}, r.verb, r.path)}

\* C26 as claimed: after the only endpoint with (verb, path) is deleted, a request
\* (verb, path) is answered 404, a following POST /endpoints with the same
\* (verb, path) is answered 201 (not 409) with an id greater than the deleted one,
\* and the pair is served again.
C26_DeletedPairCanBeCreatedAgain ==
    [][(resp'.status = 204 /\ IsDelete(req'))
       => \A gone \in OnlyHolders(rows, PathValue(req'.path)) :
             ServedAfterDelete(gone, rows', seq')]_vars

\* C26 as amended: the same, for a pair (verb, path) that the router hands to the
\* catch-all handler (not a management route, path in canonical form).
C26_DeletedDispatchPairCanBeCreatedAgain ==
    [][(resp'.status = 204 /\ IsDelete(req'))
       => \A gone \in OnlyHolders(rows, PathValue(req'.path)) :
             Route(gone.verb, gone.path) = "all"
             => ServedAfterDelete(gone, rows', seq')]_vars

\* record 2 is the only one with GET /a, beside record 1 (POST /a), and DELETE
\* /endpoints/2 is answered 204: GET /a is then the 404, and the POST of GET /a
\* that follows is answered 201 with id 3
C26_Witness ==
    /\ seq = 2
    /\ \E r \in rows : RowShows(r, 1, V3)
    /\ \E r \in rows : RowShows(r, 2, V1)
    /\ ENABLED (/\ DeleteEndpointReq
                /\ PathValue(req'.path) = <<"2">>
                /\ resp'.status = 204
                /\ AnswerTo(rows', seq', "GET", PathA).status = 404
                /\ createEndpoint(rows', seq', Body(TRUE, TRUE, V2), ErrNil).resp.one.id = 3)

\* connections p and q serve requests for the same id, which a record had when
\* they were read (these requests insert nothing, so the record was stored from
\* the start)
DeleteOf(p) == IsDelete(inflight[p].req)
PatchOf(p) == IsUpdate(inflight[p].req) /\ ValidBody(inflight[p].req.body)
IdOf(p) == PathValue(inflight[p].req.path)

SameStoredId(p, q) ==
    /\ p # q
    /\ IdOf(p) = IdOf(q)
    /\ \E i \in issued : IdMatches(i, IdOf(p))

BothAnswered(p, q) ==
    Answered(p) /\ Answered(q) /\ ~CallFailed(p) /\ ~CallFailed(q)

\* C27: each statement being atomic, requests served at the same time for one id
\* are answered as if served one after the other. Of two DELETE /endpoints/{i} of
\* a stored id, once both are answered without a failed call, one has 204 and the
\* other 404. A PATCH /endpoints/{i} beside a DELETE /endpoints/{i} is answered
\* 201 (its UPDATE ran before the DELETE) or 404 (the DELETE, answered 204, ran
\* first), and the DELETE 204; the record is gone at the end in every case.
C27_SameIdLinearizable ==
    \A p, q \in Procs :
        SameStoredId(p, q)
        => /\ (DeleteOf(p) /\ DeleteOf(q))
              => (/\ ~(inflight[p].resp.status = 204 /\ inflight[q].resp.status = 204)
                  /\ BothAnswered(p, q)
                        => (/\ \/ inflight[p].resp.status = 204 /\ inflight[q].resp.status = 404
                               \/ inflight[p].resp.status = 404 /\ inflight[q].resp.status = 204
                            /\ ~HasId(rows, IdOf(p))))
           /\ (PatchOf(p) /\ DeleteOf(q))
              => (/\ (HasAnswer(p) /\ ~CallFailed(p))
                        => inflight[p].resp.status \in {201, 404}
                  /\ (HasAnswer(p) /\ inflight[p].resp.status = 404)
                        => (HasAnswer(q) /\ inflight[q].resp.status = 204)
                  /\ (HasAnswer(p) /\ inflight[p].resp.status = 201 /\ inflight[q].pc = "calling")
                        => \E r \in rows : RowShows(r, inflight[p].resp.one.id, inflight[p].req.body.data)
                  /\ BothAnswered(p, q)
                        => (/\ inflight[q].resp.status = 204
                            /\ ~HasId(rows, IdOf(p))))

\* two DELETE /endpoints/1 of the stored record, both answered: 204 and 404
C27_Witness ==
    /\ DeleteOf(1) /\ DeleteOf(2)
    /\ SameStoredId(1, 2)
    /\ BothAnswered(1, 2)
    /\ inflight[1].resp.status = 404
    /\ inflight[2].resp.status = 204
    /\ rows = {}

\* PATCH /endpoints/1 answered 201 and the DELETE /endpoints/1 beside it 204
C27_WitnessPatchFirst ==
    /\ PatchOf(1) /\ DeleteOf(2)
    /\ SameStoredId(1, 2)
    /\ BothAnswered(1, 2)
    /\ inflight[1].resp.status = 201
    /\ inflight[2].resp.status = 204
    /\ rows = {}

\* PATCH /endpoints/1 answered 404: the DELETE beside it ran first
C27_WitnessDeleteFirst ==
    /\ PatchOf(1) /\ DeleteOf(2)
    /\ SameStoredId(1, 2)
    /\ BothAnswered(1, 2)
    /\ inflight[1].resp.status = 404
    /\ inflight[2].resp.status = 204

====
